---- MODULE Spec2Model ----
(***************************************************************************)
(* A model of the chainforge ledger (src/src/main.rs): Transaction, Block  *)
(* (calculate_hash, mine_block) and Blockchain (new, add_transaction,      *)
(* mine_pending_transactions, get_balance, is_chain_valid).                *)
(*                                                                         *)
(* Rust Strings are sequences of one-character strings, so that format!    *)
(* is concatenation and &hash[..d] is SubSeq.  An f64 is a record          *)
(* [cls, h, l]: cls is "fin", "inf", "ninf" or "nan", and a finite value   *)
(* is h * 2^53 + l, rounded as IEEE-754 binary64 rounds it.                *)
(***************************************************************************)
EXTENDS Integers, Sequences, FiniteSets, TLC

(***************************************************************************)
(* Bounds of the model.                                                    *)
(***************************************************************************)
\* the chain holds at most MaxChain blocks (genesis included); a run ends when
\* it is full
MaxChain == 3
\* at most MaxAdds calls of add_transaction in one run
MaxAdds == 2

(***************************************************************************)
(* Text.                                                                   *)
(***************************************************************************)
Digits == <<"0", "1", "2", "3", "4", "5", "6", "7", "8", "9">>

\* "{}" of an unsigned or signed integer: its decimal digits, "-" first if negative
RECURSIVE DecNat(_)
DecNat(n) == IF n < 10 THEN <<Digits[n + 1]>>
             ELSE DecNat(n \div 10) \o <<Digits[(n % 10) + 1]>>

Dec(n) == IF n < 0 THEN <<"-">> \o DecNat(-n) ELSE DecNat(n)

\* the characters the model's strings are made of, and the byte order used by Mix
Alphabet == <<"0", "1", "2", "3", "4", "5", "6", "7", "8", "9",
              "a", "b", "c", "d", "e", "f", "g", "h", "i", "j", "k", "l", "m",
              "n", "o", "p", "q", "r", "s", "t", "u", "v", "w", "x", "y", "z",
              "A", "B", "C", "G", "M", "S", "X",
              "[", "]", "{", "}", ":", ",", ".", "-", "\"", "\\">>

CodeOf == [c \in {Alphabet[i] : i \in 1..Len(Alphabet)} |->
             CHOOSE i \in 1..Len(Alphabet) : Alphabet[i] = c]

\* "0".repeat(n)
RECURSIVE Repeat0(_)
Repeat0(n) == IF n = 0 THEN <<>> ELSE <<"0">> \o Repeat0(n - 1)

(***************************************************************************)
(* f64.                                                                    *)
(***************************************************************************)
Fin(n) == [cls |-> "fin", h |-> 0, l |-> n]
\* 2^53 = 9007199254740992.0, the first f64 whose successor is 2 away
Big    == [cls |-> "fin", h |-> 1, l |-> 0]
PInf   == [cls |-> "inf", h |-> 0, l |-> 0]
NInf   == [cls |-> "ninf", h |-> 0, l |-> 0]
NaN    == [cls |-> "nan", h |-> 0, l |-> 0]

RECURSIVE Log2(_)
Log2(n) == IF n <= 1 THEN 0 ELSE 1 + Log2(n \div 2)

RECURSIVE Pow2(_)
Pow2(n) == IF n = 0 THEN 1 ELSE 2 * Pow2(n - 1)

\* the spacing of the f64 values around h * 2^53 + l, for h > 0 and |l| < 2^52
Ulp(h, l) == IF l < 0 /\ Pow2(Log2(h)) = h THEN Pow2(Log2(h))
             ELSE Pow2(Log2(h) + 1)

\* l rounded to the nearest multiple of u, a tie to the even multiple
RoundTo(l, u) ==
    LET q == l \div u
        r == l % u
    IN  IF 2 * r < u THEN q * u
        ELSE IF 2 * r > u THEN (q + 1) * u
        ELSE IF q % 2 = 0 THEN q * u ELSE (q + 1) * u

\* round-to-nearest-even of the exact value h * 2^53 + l
RoundF64(h, l) ==
    IF h = 0 THEN [cls |-> "fin", h |-> 0, l |-> l]
    ELSE IF h > 0 THEN [cls |-> "fin", h |-> h, l |-> RoundTo(l, Ulp(h, l))]
    ELSE [cls |-> "fin", h |-> h, l |-> -RoundTo(-l, Ulp(-h, -l))]

FNeg(x) == CASE x.cls = "fin" -> [cls |-> "fin", h |-> -x.h, l |-> -x.l]
             [] x.cls = "inf" -> NInf
             [] x.cls = "ninf" -> PInf
             [] OTHER -> NaN

\* x + y in f64
FAdd(x, y) ==
    CASE x.cls = "nan" \/ y.cls = "nan" -> NaN
      [] x.cls = "fin" /\ y.cls = "fin" -> RoundF64(x.h + y.h, x.l + y.l)
      [] x.cls = "fin" -> y
      [] y.cls = "fin" -> x
      [] x.cls = y.cls -> x
      [] OTHER -> NaN

\* x - y in f64
FSub(x, y) == FAdd(x, FNeg(y))

(***************************************************************************)
(* Transaction and its JSON (serde_json::to_string of Vec<Transaction>).   *)
(***************************************************************************)
\* Transaction::new
Transaction(from, to, amount) == [from |-> from, to |-> to, amount |-> amount]

\* serde_json's f64: the shortest decimal that reads back as the value, with
\* ".0" on an integral one; NaN and both infinities are written as null
SerF64(x) ==
    CASE x.cls # "fin" -> <<"n", "u", "l", "l">>
      [] x.h = 0 -> Dec(x.l) \o <<".", "0">>
      [] x.h = 1 /\ x.l = 0 ->
            <<"9", "0", "0", "7", "1", "9", "9", "2", "5", "4", "7", "4", "0",
              "9", "9", "2", ".", "0">>
      [] x.h = -1 /\ x.l = 0 ->
            <<"-", "9", "0", "0", "7", "1", "9", "9", "2", "5", "4", "7", "4",
              "0", "9", "9", "2", ".", "0">>

\* serde_json's string body: a quote and a backslash are escaped
RECURSIVE EscapeJson(_)
EscapeJson(s) ==
    IF s = <<>> THEN <<>>
    ELSE (IF Head(s) \in {"\"", "\\"} THEN <<"\\", Head(s)>> ELSE <<Head(s)>>)
         \o EscapeJson(Tail(s))

JsonString(s) == <<"\"">> \o EscapeJson(s) \o <<"\"">>

\* {"from":"..","to":"..","amount":..}
TxJson(t) ==
    <<"{", "\"", "f", "r", "o", "m", "\"", ":">> \o JsonString(t.from)
    \o <<",", "\"", "t", "o", "\"", ":">> \o JsonString(t.to)
    \o <<",", "\"", "a", "m", "o", "u", "n", "t", "\"", ":">> \o SerF64(t.amount)
    \o <<"}">>

RECURSIVE TxListJson(_)
TxListJson(ts) ==
    IF ts = <<>> THEN <<>>
    ELSE IF Len(ts) = 1 THEN TxJson(ts[1])
    ELSE TxJson(ts[1]) \o <<",">> \o TxListJson(Tail(ts))

\* serde_json::to_string(&self.transactions)
TransactionsJson(ts) == <<"[">> \o TxListJson(ts) \o <<"]">>

(***************************************************************************)
(* Block.                                                                  *)
(***************************************************************************)
\* mutant of HashInput: the index is left out of the string
HashInputNoIndex(b) ==
    Dec(b.timestamp.secs) \o TransactionsJson(b.transactions)
    \o b.previous_hash \o Dec(b.nonce)

\* the string calculate_hash formats: the five fields, no separator between
HashInput(b) ==
    Dec(b.index) \o Dec(b.timestamp.secs) \o TransactionsJson(b.transactions)
    \o b.previous_hash \o Dec(b.nonce)

\* the sum of the codes of the eight bytes data[lo..lo+7]
Sum8(data, lo) ==
    CodeOf[data[lo]] + CodeOf[data[lo + 1]] + CodeOf[data[lo + 2]]
    + CodeOf[data[lo + 3]] + CodeOf[data[lo + 4]] + CodeOf[data[lo + 5]]
    + CodeOf[data[lo + 6]] + CodeOf[data[lo + 7]]

\* a checksum of the input bytes data[lo..hi]: the sum of their codes modulo
\* 8, taken by halves (cut at a multiple of eight bytes while more than eight
\* are left); it decides the leading digits of the digest
RECURSIVE Mix(_, _, _)
Mix(data, lo, hi) ==
    IF lo > hi THEN 0
    ELSE IF lo = hi THEN CodeOf[data[lo]] % 8
    ELSE IF hi - lo = 7 THEN Sum8(data, lo) % 8
    ELSE LET mid == IF hi - lo > 7
                    THEN lo + 8 * ((((hi - lo + 1) \div 8) + 1) \div 2) - 1
                    ELSE (lo + hi) \div 2
         IN  (Mix(data, lo, mid) + Mix(data, mid + 1, hi)) % 8

\* SHA-256 rendered in lower-case hex, idealised: no two inputs share a digest
\* (the digits after the leading two carry the input itself), and the leading
\* two digits are a checksum of the input, so that they change with the nonce.
\* The checksum ranges over 0..7 (digits 00..13), which keeps the search of
\* mine_block to a few steps.
\* (Written as a function of the bytes, so that they are formatted once.)
Sha256Hex(data) ==
    LET digest[d \in {data}] ==
            LET m == Mix(d, 1, Len(d))
            IN  <<Digits[(m \div 4) + 1], Digits[(m % 4) + 1]>> \o d
    IN  digest[data]

\* Block::calculate_hash
calculate_hash(b) == Sha256Hex(HashInput(b))

\* the length of the String calculate_hash returns: 32 bytes in hex
HashLen == 64

\* Block::new, timestamp being what Utc::now() returned
BlockNew(index, transactions, previous_hash, timestamp) ==
    LET b0 == [index |-> index, timestamp |-> timestamp,
               transactions |-> transactions, previous_hash |-> previous_hash,
               hash |-> <<>>, nonce |-> 0]
    IN  [b0 EXCEPT !.hash = calculate_hash(b0)]

\* mutant of NotMined: the slice is one character short
NotMinedShort(b, difficulty) ==
    difficulty > 0 /\ SubSeq(b.hash, 1, difficulty - 1) # Repeat0(difficulty - 1)

\* &self.hash[..difficulty] != target
NotMined(b, difficulty) == SubSeq(b.hash, 1, difficulty) # Repeat0(difficulty)

\* mutant of MineStep: the timestamp is touched as well
MineStepTouch(b) ==
    LET b1 == [b EXCEPT !.nonce = b.nonce + 1, !.timestamp.nanos = @ + 1]
    IN  [b1 EXCEPT !.hash = calculate_hash(b1)]

\* one turn of the loop of mine_block
MineStep(b) ==
    LET b1 == [b EXCEPT !.nonce = b.nonce + 1]
    IN  [b1 EXCEPT !.hash = calculate_hash(b1)]

\* mutant of mine_block: the nonce is bumped once more after the last hash
RECURSIVE mine_block_stale(_, _)
mine_block_stale(b, difficulty) ==
    IF SubSeq(b.hash, 1, difficulty) # Repeat0(difficulty)
    THEN mine_block_stale(MineStep(b), difficulty)
    ELSE [b EXCEPT !.nonce = @ + 1]

\* Block::mine_block: the block as the loop leaves it
RECURSIVE mine_block(_, _)
mine_block(b, difficulty) ==
    IF NotMined(b, difficulty) THEN mine_block(MineStep(b), difficulty) ELSE b

(***************************************************************************)
(* Blockchain: the pure parts.                                             *)
(***************************************************************************)
Genesis == <<"G", "e", "n", "e", "s", "i", "s">>
System  == <<"S", "y", "s", "t", "e", "m">>

\* mutant of GenesisBlock: the block is pushed as Block::new made it
GenesisBlockUnmined(difficulty, timestamp) ==
    BlockNew(0, <<Transaction(Genesis, Genesis, Fin(0))>>, <<"0">>, timestamp)

\* create_genesis_block: the block pushed on the empty chain
GenesisBlock(difficulty, timestamp) ==
    mine_block(BlockNew(0, <<Transaction(Genesis, Genesis, Fin(0))>>, <<"0">>,
                        timestamp),
               difficulty)

\* mutant of TipHash: the first block's hash instead of the last's
TipHashFirst(ch) == ch[1].hash

\* get_latest_block().hash
TipHash(ch) == ch[Len(ch)].hash

\* mutant of NextIndex: the blocks are counted from 1
NextIndexFromOne(ch) == Len(ch) + 1

\* self.chain.len() as u64, the index given to the new block
NextIndex(ch) == Len(ch)

\* mutant of WithReward: the reward is put first
RewardFirst(pending, addr, reward) ==
    <<Transaction(System, addr, reward)>> \o pending

\* the pending buffer after the reward transaction is pushed on it
WithReward(pending, addr, reward) ==
    Append(pending, Transaction(System, addr, reward))

\* mutant of Cleared: the buffer is left as it is
NotCleared(pending) == pending

\* self.pending_transactions.clear()
Cleared(pending) == <<>>

\* the block mine_pending_transactions builds, mines and pushes
MinedBlock(ch, pending, addr, reward, difficulty, timestamp) ==
    mine_block(BlockNew(NextIndex(ch), WithReward(pending, addr, reward),
                        TipHash(ch), timestamp),
               difficulty)

\* mutant of ApplyTx: "else if", so a transfer to oneself is only debited
ApplyTxElseIf(balance, t, address) ==
    IF t.from = address THEN FSub(balance, t.amount)
    ELSE IF t.to = address THEN FAdd(balance, t.amount)
    ELSE balance

\* mutant of ApplyTx: the sender's side is forgotten
ApplyTxCreditOnly(balance, t, address) ==
    IF t.to = address THEN FAdd(balance, t.amount) ELSE balance

\* get_balance: one transaction's effect on the running balance
ApplyTx(balance, t, address) ==
    LET b1 == IF t.from = address THEN FSub(balance, t.amount) ELSE balance
    IN  IF t.to = address THEN FAdd(b1, t.amount) ELSE b1

\* get_balance: the inner loop, from the j-th transaction of a block on
RECURSIVE BalanceTxs(_, _, _, _)
BalanceTxs(ts, j, balance, address) ==
    IF j > Len(ts) THEN balance
    ELSE BalanceTxs(ts, j + 1, ApplyTx(balance, ts[j], address), address)

\* get_balance: the outer loop, from the i-th block on
RECURSIVE BalanceBlocks(_, _, _, _)
BalanceBlocks(ch, i, balance, address) ==
    IF i > Len(ch) THEN balance
    ELSE BalanceBlocks(ch, i + 1,
                       BalanceTxs(ch[i].transactions, 1, balance, address),
                       address)

\* Blockchain::get_balance
get_balance(ch, address) == BalanceBlocks(ch, 1, Fin(0), address)

\* mutant of ValidFrom: the comparison of previous_hash is left out
RECURSIVE ValidFromHashOnly(_, _)
ValidFromHashOnly(ch, i) ==
    IF i > Len(ch) THEN TRUE
    ELSE IF ch[i].hash # calculate_hash(ch[i]) THEN FALSE
    ELSE ValidFromHashOnly(ch, i + 1)

\* is_chain_valid: the loop from position i on (chain[i - 1] in the code, the
\* sequence being 1-based here); the first failing check returns false
RECURSIVE ValidFrom(_, _)
ValidFrom(ch, i) ==
    IF i > Len(ch) THEN TRUE
    ELSE IF ch[i].hash # calculate_hash(ch[i]) THEN FALSE
    ELSE IF ch[i].previous_hash # ch[i - 1].hash THEN FALSE
    ELSE ValidFrom(ch, i + 1)

\* mutant of is_chain_valid: the loop starts one block late (for i in 2..len)
is_chain_valid_late(ch) == ValidFrom(ch, 3)

\* Blockchain::is_chain_valid: for i in 1..len
is_chain_valid(ch) == ValidFrom(ch, 2)

(***************************************************************************)
(* State.                                                                  *)
(***************************************************************************)
VARIABLES
    chain,                 \* Blockchain.chain
    difficulty,            \* Blockchain.difficulty
    pending_transactions,  \* Blockchain.pending_transactions
    mining_reward,         \* Blockchain.mining_reward
    submitted,             \* history: every add_transaction so far, as
                           \* [tx, at]: the transaction and Len(chain) then
    last,                  \* history: the operation that led to this state
                           \* (for a direct mutation: which block, field and
                           \* transaction, and the block as it was)
    pc,                    \* main: how many of its statements have run
    out,                   \* main: the values it has printed
    call                   \* a direct call of a Block method: the block it
                           \* works on, its argument and where it stands

vars == <<chain, difficulty, pending_transactions, mining_reward, submitted,
          last, pc, out, call>>

\* what Utc::now() may return: two instants of one second, and a later second
Clock == {[secs |-> 7, nanos |-> 0], [secs |-> 7, nanos |-> 5],
          [secs |-> 12, nanos |-> 0]}

AddrA == <<"A">>
AddrB == <<"B">>
AddrM == <<"M">>
AddrX == <<"X">>

\* the transactions callers submit
TxInputs == {Transaction(AddrA, AddrB, Big),
             Transaction(AddrA, AddrA, PInf),
             Transaction(AddrB, AddrB, Fin(-5))}

\* the reward addresses callers name
Miners == {AddrM}

\* what Utc::now() may return when the last block was stamped t: the same
\* instant again, or an instant of a later second
ClockAfter(t) == {now \in Clock : now = t \/ now.secs > t.secs}

\* no Block method is being called directly
NoCall == [at |-> "none"]

Op(op, addr, pos, field, tx, was) ==
    [op |-> op, addr |-> addr, pos |-> pos, field |-> field, tx |-> tx,
     was |-> was]

\* Blockchain::new
Init ==
    /\ \E now \in Clock : chain = <<GenesisBlock(2, now)>>
    /\ difficulty = 2
    /\ pending_transactions = <<>>
    /\ mining_reward = Fin(100)
    /\ submitted = <<>>
    /\ last = Op("new", <<>>, 0, "", 0, <<>>)
    /\ pc = 0
    /\ out = <<>>
    /\ call = NoCall

(***************************************************************************)
(* The public operations.                                                  *)
(***************************************************************************)
\* mutant of add_transaction: the transaction is put at the front
add_transaction_front(t) ==
    /\ pending_transactions' = <<t>> \o pending_transactions
    /\ submitted' = Append(submitted, [tx |-> t, at |-> Len(chain)])
    /\ last' = Op("add", <<>>, 0, "", 0, <<>>)
    /\ UNCHANGED <<chain, difficulty, mining_reward>>

\* Blockchain::add_transaction
add_transaction(t) ==
    /\ pending_transactions' = Append(pending_transactions, t)
    /\ submitted' = Append(submitted, [tx |-> t, at |-> Len(chain)])
    /\ last' = Op("add", <<>>, 0, "", 0, <<>>)
    /\ UNCHANGED <<chain, difficulty, mining_reward>>

\* Blockchain::mine_pending_transactions, Utc::now() returning now
mine_pending_transactions(addr, now) ==
    /\ chain' = Append(chain, MinedBlock(chain, pending_transactions, addr,
                                         mining_reward, difficulty, now))
    /\ pending_transactions' =
           Cleared(WithReward(pending_transactions, addr, mining_reward))
    /\ last' = Op("mine", addr, 0, "", 0, <<>>)
    /\ UNCHANGED <<difficulty, mining_reward, submitted>>

AddTransaction ==
    /\ last.op \in {"new", "add", "mine"}
    /\ Len(chain) < MaxChain
    /\ Len(submitted) < MaxAdds
    /\ \E t \in TxInputs : add_transaction(t)
    /\ UNCHANGED <<pc, out, call>>

MinePending ==
    /\ last.op \in {"new", "add", "mine"}
    /\ Len(chain) < MaxChain
    /\ \E addr \in Miners, now \in ClockAfter(chain[Len(chain)].timestamp) :
           mine_pending_transactions(addr, now)
    /\ UNCHANGED <<pc, out, call>>

Next == AddTransaction \/ MinePending

Spec == Init /\ [][Next]_vars

(***************************************************************************)
(* Direct mutation of a block held in the chain, through the pub fields    *)
(* (what main does to chain[1].transactions[0].amount).  One field of one  *)
(* block is overwritten with a different value; hash is left as it was.    *)
(* The mutation is made when an operation has returned with the buffer     *)
(* empty (after new or a mine): every chain a run builds is met there.     *)
(***************************************************************************)
\* the values written over an amount, a name, a previous_hash
TamperAmounts == {Fin(1000), NInf}
TamperNames   == {AddrX}
TamperHashes  == {<<"0", "0">>}

Tampered(pos, field, tx, b) ==
    /\ last.op \in {"new", "mine"}
    /\ b # chain[pos]
    /\ chain' = [chain EXCEPT ![pos] = b]
    /\ last' = Op("tamper", <<>>, pos, field, tx, chain[pos])
    /\ UNCHANGED <<difficulty, pending_transactions, mining_reward, submitted,
                   pc, out, call>>

TamperIndex ==
    \E pos \in 1..Len(chain) :
        Tampered(pos, "index", 0, [chain[pos] EXCEPT !.index = @ + 1])

\* the timestamp moved within its second, or by a second
TamperTimestamp ==
    \E pos \in 1..Len(chain) :
        \E t \in {[chain[pos].timestamp EXCEPT !.nanos = @ + 1],
                  [chain[pos].timestamp EXCEPT !.secs = @ + 1]} :
            Tampered(pos, "timestamp", 0, [chain[pos] EXCEPT !.timestamp = t])

TamperAmount(pos, j, v) ==
    Tampered(pos, "amount", j,
             [chain[pos] EXCEPT !.transactions[j].amount = v])

TamperAnyAmount ==
    \E pos \in 1..Len(chain) :
        \E j \in 1..Len(chain[pos].transactions), v \in TamperAmounts :
            TamperAmount(pos, j, v)

TamperFrom ==
    \E pos \in 1..Len(chain) :
        \E j \in 1..Len(chain[pos].transactions), s \in TamperNames :
            Tampered(pos, "from", j,
                     [chain[pos] EXCEPT !.transactions[j].from = s])

TamperTo ==
    \E pos \in 1..Len(chain) :
        \E j \in 1..Len(chain[pos].transactions), s \in TamperNames :
            Tampered(pos, "to", j,
                     [chain[pos] EXCEPT !.transactions[j].to = s])

TamperPreviousHash ==
    \E pos \in 1..Len(chain) :
        \E s \in TamperHashes :
            Tampered(pos, "previous_hash", 0,
                     [chain[pos] EXCEPT !.previous_hash = s])

TamperNonce ==
    \E pos \in 1..Len(chain) :
        Tampered(pos, "nonce", 0, [chain[pos] EXCEPT !.nonce = @ + 1])

NextTamper ==
    \/ AddTransaction
    \/ MinePending
    \/ TamperIndex
    \/ TamperTimestamp
    \/ TamperAnyAmount
    \/ TamperFrom
    \/ TamperTo
    \/ TamperPreviousHash
    \/ TamperNonce

\* the chain as constructed at the first reading of the clock; a reading within
\* the same second gives the same recomputed hashes
InitTamper == Init /\ chain[1].timestamp = [secs |-> 7, nanos |-> 0]

\* the public operations, and then at most one direct mutation
SpecTamper == InitTamper /\ [][NextTamper]_vars

(***************************************************************************)
(* Direct mutation, then the stored hash brought up to date: after a field *)
(* of a block (or its stored hash) is overwritten, block.hash is set to    *)
(* block.calculate_hash().                                                 *)
(***************************************************************************)
\* block.hash = <another string>
TamperHash ==
    \E pos \in 1..Len(chain) :
        \E s \in TamperHashes :
            Tampered(pos, "hash", 0, [chain[pos] EXCEPT !.hash = s])

\* block.hash = block.calculate_hash(), for the block last written to
Rehash ==
    /\ last.op = "tamper"
    /\ chain' = [chain EXCEPT ![last.pos].hash = calculate_hash(chain[last.pos])]
    /\ last' = [last EXCEPT !.op = "rehash"]
    /\ UNCHANGED <<difficulty, pending_transactions, mining_reward, submitted,
                   pc, out, call>>

\* add_transaction of an amount that is not finite, the one kind of amount whose
\* change the hashed string can fail to show
AddNonFinite ==
    /\ last.op \in {"new", "add", "mine"}
    /\ Len(chain) < MaxChain
    /\ Len(submitted) < MaxAdds
    /\ add_transaction(Transaction(AddrA, AddrA, PInf))
    /\ UNCHANGED <<pc, out, call>>

NextRehash ==
    \/ AddNonFinite
    \/ MinePending
    \/ TamperIndex
    \/ TamperAnyAmount
    \/ TamperHash
    \/ Rehash

\* the public operations, then one direct mutation, then the rehash
SpecRehash == InitTamper /\ [][NextRehash]_vars

(***************************************************************************)
(* main: its statements after Blockchain::new(), in order.                 *)
(***************************************************************************)
Alice   == <<"A", "l", "i", "c", "e">>
Bob     == <<"B", "o", "b">>
Charlie == <<"C", "h", "a", "r", "l", "i", "e">>
Miner1  == <<"M", "i", "n", "e", "r", "1">>
Miner2  == <<"M", "i", "n", "e", "r", "2">>

\* pc -> the transaction main adds next
MainAdds == [p \in {0, 1, 4, 5} |->
               CASE p = 0 -> Transaction(Alice, Bob, Fin(50))
                 [] p = 1 -> Transaction(Bob, Charlie, Fin(25))
                 [] p = 4 -> Transaction(Charlie, Alice, Fin(10))
                 [] p = 5 -> Transaction(Alice, Bob, Fin(5))]

\* pc -> the reward address main mines for next
MainMiners == [p \in {3, 7} |-> IF p = 3 THEN Miner1 ELSE Miner2]

\* pc -> the address whose balance main prints next
MainBalances == [p \in 10..14 |->
                   CASE p = 10 -> Alice [] p = 11 -> Bob [] p = 12 -> Charlie
                     [] p = 13 -> Miner1 [] p = 14 -> Miner2]

MainAdd ==
    /\ pc \in DOMAIN MainAdds
    /\ add_transaction(MainAdds[pc])
    /\ pc' = pc + 1
    /\ UNCHANGED <<out, call>>

MainMine ==
    /\ pc \in DOMAIN MainMiners
    /\ \E now \in ClockAfter(chain[Len(chain)].timestamp) :
           mine_pending_transactions(MainMiners[pc], now)
    /\ pc' = pc + 1
    /\ UNCHANGED <<out, call>>

\* the println! of a heading, and display_chain(): the ledger is only read
MainShow ==
    /\ pc \in {2, 6, 8, 9, 16}
    /\ pc' = pc + 1
    /\ UNCHANGED <<chain, difficulty, pending_transactions, mining_reward,
                   submitted, last, out, call>>

MainPrintBalance ==
    /\ pc \in DOMAIN MainBalances
    /\ out' = Append(out, get_balance(chain, MainBalances[pc]))
    /\ pc' = pc + 1
    /\ UNCHANGED <<chain, difficulty, pending_transactions, mining_reward,
                   submitted, last, call>>

MainPrintValid ==
    /\ pc \in {15, 18}
    /\ out' = Append(out, is_chain_valid(chain))
    /\ pc' = pc + 1
    /\ UNCHANGED <<chain, difficulty, pending_transactions, mining_reward,
                   submitted, last, call>>

\* if let Some(block) = chain.get_mut(1) { block.transactions[0].amount = 1000.0 }
MainTamper ==
    /\ pc = 17
    /\ IF Len(chain) >= 2
       THEN /\ chain' = [chain EXCEPT ![2].transactions[1].amount = Fin(1000)]
            /\ last' = Op("tamper", <<>>, 2, "amount", 1, chain[2])
       ELSE UNCHANGED <<chain, last>>
    /\ pc' = pc + 1
    /\ UNCHANGED <<difficulty, pending_transactions, mining_reward, submitted,
                   out, call>>

NextMain ==
    \/ MainAdd
    \/ MainMine
    \/ MainShow
    \/ MainPrintBalance
    \/ MainPrintValid
    \/ MainTamper

SpecMain == Init /\ [][NextMain]_vars

(***************************************************************************)
(* Block::mine_block called directly, one turn of its loop at a time.      *)
(* call.block is self, call.d the argument, call.was self on entry,        *)
(* call.tested the (nonce, hash) pairs the loop condition has compared with *)
(* the target so far, and call.at where the call stands: "test" (about to  *)
(* evaluate the condition), "body", "done" (returned) or "panic".          *)
(***************************************************************************)
\* the blocks mine_block is called on, as Block::new makes them
FreshBlocks ==
    {BlockNew(index, transactions, <<"0">>, timestamp) :
        index \in {0, 1},
        transactions \in {<<Transaction(Genesis, Genesis, Fin(0))>>,
                          <<Transaction(AddrB, AddrB, Fin(-5)),
                            Transaction(System, AddrM, Fin(100))>>},
        timestamp \in {[secs |-> 7, nanos |-> 0], [secs |-> 12, nanos |-> 0]}}

\* blocks whose index was overwritten after Block::new, or after mining at
\* difficulty 2: the stored hash is no longer the hash of the fields
StaleBlocks ==
    {[b EXCEPT !.index = @ + 1] : b \in FreshBlocks}
    \cup {[mine_block(b, 2) EXCEPT !.index = @ + 1] : b \in FreshBlocks}

\* the difficulties passed: none, the ledger's range, and one above HashLen
MineDifficulties == {0, 1, 2, HashLen + 1}

\* mutant of MineEntry: the body runs before the first comparison
MineEntryDoWhile(b, d) ==
    [at |-> "body", block |-> b, d |-> d, was |-> b, tested |-> <<>>]

\* mine_block(d) entered on block b
MineEntry(b, d) ==
    [at |-> "test", block |-> b, d |-> d, was |-> b, tested |-> <<>>]

\* Blockchain::new, then a call of mine_block on a block of the caller's
InitMine ==
    /\ chain = <<GenesisBlock(2, [secs |-> 7, nanos |-> 0])>>
    /\ difficulty = 2
    /\ pending_transactions = <<>>
    /\ mining_reward = Fin(100)
    /\ submitted = <<>>
    /\ last = Op("new", <<>>, 0, "", 0, <<>>)
    /\ pc = 0
    /\ out = <<>>
    /\ \E b \in FreshBlocks \cup StaleBlocks, d \in MineDifficulties :
           call = MineEntry(b, d)

\* while &self.hash[..difficulty] != target: the slice panics when difficulty
\* exceeds the length of the hash
MineTest ==
    /\ call.at = "test"
    /\ IF call.d > HashLen
       THEN call' = [call EXCEPT !.at = "panic"]
       ELSE call' = [call EXCEPT
                       !.at = IF NotMined(call.block, call.d)
                              THEN "body" ELSE "done",
                       !.tested = Append(@, [nonce |-> call.block.nonce,
                                             hash |-> call.block.hash])]
    /\ UNCHANGED <<chain, difficulty, pending_transactions, mining_reward,
                   submitted, last, pc, out>>

\* self.nonce += 1; self.hash = self.calculate_hash()
MineBody ==
    /\ call.at = "body"
    /\ call' = [call EXCEPT !.at = "test", !.block = MineStep(call.block)]
    /\ UNCHANGED <<chain, difficulty, pending_transactions, mining_reward,
                   submitted, last, pc, out>>

NextMine == MineTest \/ MineBody

SpecMine == InitMine /\ [][NextMine]_vars

\* the loop is a busy loop of one thread: a call that can take a step takes it
SpecMineFair == SpecMine /\ WF_vars(NextMine)

(***************************************************************************)
(* Block::calculate_hash called on two blocks of the caller's.  call.a and *)
(* call.b are the blocks; once the calls have returned call.sa and call.sb *)
(* are the strings formatted and call.ha and call.hb the hashes.           *)
(***************************************************************************)
\* the blocks hashed: indices, epoch seconds, previous hashes and nonces of one
\* and two digits
SerBlocks ==
    {[BlockNew(index, <<Transaction(System, AddrM, Fin(100))>>, previous_hash,
               [secs |-> secs, nanos |-> 0])
         EXCEPT !.nonce = nonce] :
        index \in {1, 12}, secs \in {3, 23},
        previous_hash \in {<<"0">>, <<"0", "1">>}, nonce \in {0, 10}}

\* Blockchain::new, then two blocks of the caller's about to be hashed
InitSerialize ==
    /\ chain = <<GenesisBlock(2, [secs |-> 7, nanos |-> 0])>>
    /\ difficulty = 2
    /\ pending_transactions = <<>>
    /\ mining_reward = Fin(100)
    /\ submitted = <<>>
    /\ last = Op("new", <<>>, 0, "", 0, <<>>)
    /\ pc = 0
    /\ out = <<>>
    /\ \E a \in SerBlocks, b \in SerBlocks :
           call = [at |-> "fresh", a |-> a, b |-> b]

\* a.calculate_hash() and b.calculate_hash()
Serialize ==
    /\ call.at = "fresh"
    /\ call' = [at |-> "hashed", a |-> call.a, b |-> call.b,
                sa |-> HashInput(call.a), sb |-> HashInput(call.b),
                ha |-> calculate_hash(call.a), hb |-> calculate_hash(call.b)]
    /\ UNCHANGED <<chain, difficulty, pending_transactions, mining_reward,
                   submitted, last, pc, out>>

NextSerialize == Serialize

SpecSerialize == InitSerialize /\ [][NextSerialize]_vars

(***************************************************************************)
(* Properties of the public operations (specification Spec).               *)
(***************************************************************************)
\* C1: after Blockchain::new() and any sequence of add_transaction and
\* mine_pending_transactions calls, is_chain_valid() returns true.
Thm_C1_ValidAfterPublicOps == is_chain_valid(chain)

\* C1 witness: genesis plus two mined blocks, reported valid
Wit_C1_TwoMinedValid ==
    /\ Len(chain) = 3
    /\ Len(submitted) = 2
    /\ is_chain_valid(chain)

\* C3: chain[0].previous_hash is "0", and every later block names its
\* predecessor's hash and stores the hash of its own fields.
Thm_C3_Linkage ==
    /\ chain[1].previous_hash = <<"0">>
    /\ \A i \in 2..Len(chain) :
           /\ chain[i].previous_hash = chain[i - 1].hash
           /\ chain[i].hash = calculate_hash(chain[i])

\* C3 witness: a third block linked to a second whose hash differs from the
\* genesis hash
Wit_C3_ThreeLinked ==
    /\ Len(chain) = 3
    /\ chain[3].previous_hash = chain[2].hash
    /\ chain[2].hash # chain[1].hash

\* the first d characters of a hash are all '0'
LeadingZeros(h, d) == Len(h) >= d /\ \A k \in 1..d : h[k] = "0"

\* a block of the chain as Block::new made it, before mining
Unmined(b) == BlockNew(b.index, b.transactions, b.previous_hash, b.timestamp)

\* C4: the hash mine_block(d) leaves has d leading '0' characters: every block
\* of the chain, genesis included, was left by mine_block(difficulty) and has
\* `difficulty` of them, and so has, for d = 0 and 1, what mine_block(d) makes
\* of the block just pushed as Block::new made it.
Thm_C4_ProofOfWork ==
    /\ \A i \in 1..Len(chain) : LeadingZeros(chain[i].hash, difficulty)
    /\ last.op \in {"new", "mine"} =>
           \A d \in 0..1 :
               LET mined == mine_block(Unmined(chain[Len(chain)]), d)
               IN  LeadingZeros(mined.hash, d)

\* C4 witness: a mined block that needed a search (nonce > 0), after a genesis
\* that needed one too
Wit_C4_Searched ==
    /\ Len(chain) >= 2
    /\ chain[1].nonce > 0
    /\ chain[2].nonce > 0
    /\ NotMined(Unmined(chain[2]), difficulty)

\* C5: every mine_pending_transactions(addr) appends exactly one block: its
\* index is the old chain length, its previous_hash the old tip's hash, its
\* transactions the old pending buffer in order followed by the reward
\* ("System" -> addr, mining_reward).
Thm_C5_MineAppendsOne ==
    [][last'.op = "mine" =>
         LET n == Len(chain) IN
         /\ Len(chain') = n + 1
         /\ SubSeq(chain', 1, n) = chain
         /\ chain'[n + 1].index = n
         /\ chain'[n + 1].previous_hash = chain[n].hash
         /\ chain'[n + 1].transactions =
                pending_transactions
                \o <<[from |-> System, to |-> last'.addr,
                      amount |-> mining_reward]>>]_vars

\* C5 witness: a block mined from a buffer of two, then one from an empty buffer
Wit_C5_EmptyAndFull ==
    /\ last.op = "mine"
    /\ Len(chain) = 3
    /\ Len(chain[2].transactions) = 3
    /\ Len(chain[3].transactions) = 1

\* the transactions submitted while the chain had k blocks, in order
SubmittedAt(k) ==
    LET es == SelectSeq(submitted, LAMBDA e : e.at = k)
    IN  [i \in 1..Len(es) |-> es[i].tx]

\* C6: the pending buffer is empty after every mine; every submitted
\* transaction is in exactly one block, the one appended by the first mine
\* after its submission, and a reward is never left pending.
Thm_C6_PendingConsumed ==
    /\ last.op = "mine" => pending_transactions = <<>>
    /\ pending_transactions = SubmittedAt(Len(chain))
    /\ \A t \in {pending_transactions[j] : j \in 1..Len(pending_transactions)} :
           t.from # System
    /\ \A k \in 1..(Len(chain) - 1) :
           LET ts == chain[k + 1].transactions
               n  == Len(SubmittedAt(k))
           IN  /\ Len(ts) = n + 1
               /\ SubSeq(ts, 1, n) = SubmittedAt(k)
               /\ ts[n + 1].from = System

\* C6 witness: one transaction in each of two mined blocks, nothing pending
Wit_C6_OnePerBlock ==
    /\ Len(chain) = 3
    /\ Len(submitted) = 2
    /\ submitted[1].at = 1
    /\ submitted[2].at = 2
    /\ pending_transactions = <<>>

\* C12: Blockchain::new() returns a ledger with difficulty 2, mining_reward
\* 100, an empty pending buffer and a chain of exactly one block: index 0,
\* previous_hash "0", the single transaction ("Genesis" -> "Genesis", 0), and
\* a hash equal to calculate_hash() with 2 leading '0' characters.
Thm_C12_NewLedger ==
    last.op = "new" =>
        /\ difficulty = 2
        /\ mining_reward = Fin(100)
        /\ pending_transactions = <<>>
        /\ Len(chain) = 1
        /\ chain[1].index = 0
        /\ chain[1].previous_hash = <<"0">>
        /\ chain[1].transactions =
               <<[from |-> Genesis, to |-> Genesis, amount |-> Fin(0)]>>
        /\ chain[1].hash = calculate_hash(chain[1])
        /\ LeadingZeros(chain[1].hash, 2)

\* C12 witness: the ledger as new() returns it, the genesis block found by a
\* search (nonce > 0)
Wit_C12_FreshLedger ==
    /\ last.op = "new"
    /\ chain[1].nonce > 0
    /\ chain[1].timestamp = [secs |-> 12, nanos |-> 0]
    /\ SubSeq(chain[1].hash, 1, 2) = <<"0", "0">>

\* C16: the chain is append-only under the public operations: add_transaction
\* leaves it alone, mine_pending_transactions makes it one longer, the old
\* chain is a prefix of the new one; it is never empty (get_latest_block never
\* fails) and the block at position i has index i (positions from 0).
Thm_C16_AppendOnly ==
    /\ [](/\ Len(chain) >= 1
          /\ TipHash(chain) = chain[Len(chain)].hash
          /\ \A i \in 1..Len(chain) : chain[i].index = i - 1)
    /\ [][/\ Len(chain') >= Len(chain)
          /\ SubSeq(chain', 1, Len(chain)) = chain
          /\ last'.op = "add" => chain' = chain
          /\ last'.op = "mine" => Len(chain') = Len(chain) + 1]_vars

\* C16 witness: two blocks appended, with transactions added in between
Wit_C16_GrownByTwo ==
    /\ last.op = "mine"
    /\ Len(chain) = 3
    /\ Len(submitted) = 2
    /\ chain[3].index = 2
    /\ chain[2].index = 1

\* C17: add_transaction(t) accepts every transaction (negative amounts and
\* duplicates included) and only appends t to the pending buffer: chain,
\* difficulty and mining_reward are unchanged, and so are get_balance of
\* every address and is_chain_valid().
Thm_C17_AddOnlyAppends ==
    /\ [](\A t \in TxInputs : ENABLED add_transaction(t))
    /\ [][last'.op = "add" =>
            /\ Len(submitted') = Len(submitted) + 1
            /\ pending_transactions' =
                   Append(pending_transactions, submitted'[Len(submitted')].tx)
            /\ chain' = chain
            /\ difficulty' = difficulty
            /\ mining_reward' = mining_reward
            /\ \A a \in {AddrA, AddrB, AddrM, AddrX, System, Genesis} :
                   get_balance(chain', a) = get_balance(chain, a)
            /\ is_chain_valid(chain') = is_chain_valid(chain)]_vars

\* C17 witness: a negative amount accepted after a different transaction, and
\* nothing but the buffer changed (the balances are those of the mined chain)
Wit_C17_NegativeAfterOther ==
    /\ last.op = "add"
    /\ Len(chain) = 2
    /\ pending_transactions = <<Transaction(AddrA, AddrB, Big),
                                Transaction(AddrB, AddrB, Fin(-5))>>
    /\ get_balance(chain, AddrB) = Fin(0)
    /\ get_balance(chain, AddrM) = Fin(100)

(***************************************************************************)
(* Balances against exact arithmetic.                                      *)
(***************************************************************************)
\* x + y and -x without rounding (the reals, with the infinities)
XAdd(x, y) ==
    CASE x.cls = "nan" \/ y.cls = "nan" -> NaN
      [] x.cls = "fin" /\ y.cls = "fin" ->
            [cls |-> "fin", h |-> x.h + y.h, l |-> x.l + y.l]
      [] x.cls = "fin" -> y
      [] y.cls = "fin" -> x
      [] x.cls = y.cls -> x
      [] OTHER -> NaN

\* every transaction of every block, in chain order
RECURSIVE AllTxs(_)
AllTxs(ch) == IF ch = <<>> THEN <<>>
              ELSE ch[1].transactions \o AllTxs(Tail(ch))

\* the exact sum of the amounts of a sequence of transactions
RECURSIVE XSum(_)
XSum(ts) == IF ts = <<>> THEN Fin(0) ELSE XAdd(ts[1].amount, XSum(Tail(ts)))

\* (sum of amounts received by a) - (sum of amounts sent by a), exactly
RefBalance(ch, a) ==
    XAdd(XSum(SelectSeq(AllTxs(ch), LAMBDA t : t.to = a)),
         FNeg(XSum(SelectSeq(AllTxs(ch), LAMBDA t : t.from = a))))

\* the same with the transfers from a to a left out
RefBalanceNoSelf(ch, a) ==
    XAdd(XSum(SelectSeq(AllTxs(ch), LAMBDA t : t.to = a /\ t.from # a)),
         FNeg(XSum(SelectSeq(AllTxs(ch), LAMBDA t : t.from = a /\ t.to # a))))

\* the addresses that send or receive in some block
Parties(ch) ==
    LET ts == AllTxs(ch)
    IN  {ts[j].from : j \in 1..Len(ts)} \cup {ts[j].to : j \in 1..Len(ts)}

\* the addresses asked about: the parties of the runs, and one in no block
Addresses == {AddrA, AddrB, AddrM, AddrX, System, Genesis}

\* every amount in the chain is a finite f64
FiniteAmounts(ch) ==
    \A j \in 1..Len(AllTxs(ch)) : AllTxs(ch)[j].amount.cls = "fin"

\* every amount in the chain is an integer, and the amounts are small enough
\* that every sum of them is below 2^53: f64 adds and subtracts them exactly
ExactAmounts(ch) ==
    \A j \in 1..Len(AllTxs(ch)) :
        AllTxs(ch)[j].amount.cls = "fin" /\ AllTxs(ch)[j].amount.h = 0

BalanceIsNetFlow(ch) ==
    \A a \in Addresses :
        /\ get_balance(ch, a) = RefBalance(ch, a)
        /\ get_balance(ch, a) = RefBalanceNoSelf(ch, a)
        /\ a \notin Parties(ch) => get_balance(ch, a) = Fin(0)

\* C7 as claimed: for every address and every chain, get_balance(a) is the sum
\* received minus the sum sent, 0 for an address in no block, a transfer from
\* a to a contributing 0.
Cex_C7_NetFlowAlways == BalanceIsNetFlow(chain)

\* C7 as amended: the same, for chains whose amounts are integers small enough
\* that every partial sum is exact in f64 (magnitude below 2^53).
Thm_C7_NetFlowExact == ExactAmounts(chain) => BalanceIsNetFlow(chain)

\* C7 witness: exact amounts, with a transfer to oneself and two rewards
Wit_C7_SelfAndRewards ==
    /\ ExactAmounts(chain)
    /\ \E j \in 1..Len(AllTxs(chain)) :
           /\ AllTxs(chain)[j].from = AddrB
           /\ AllTxs(chain)[j].to = AddrB
           /\ AllTxs(chain)[j].amount = Fin(-5)
    /\ get_balance(chain, AddrB) = Fin(0)
    /\ get_balance(chain, AddrM) = Fin(200)
    /\ get_balance(chain, System) = Fin(-200)
    /\ get_balance(chain, AddrX) = Fin(0)

\* the exact sum of the balances get_balance returns for a set of addresses
RECURSIVE BalanceTotal(_, _)
BalanceTotal(ch, as) ==
    IF as = {} THEN Fin(0)
    ELSE LET a == CHOOSE x \in as : TRUE
         IN  XAdd(get_balance(ch, a), BalanceTotal(ch, as \ {a}))

\* C8 as claimed: with integer-valued amounts the balances of all addresses,
\* "System" counted, sum to zero after any sequence of operations.
Cex_C8_ConservedIntegers ==
    FiniteAmounts(chain) => BalanceTotal(chain, Parties(chain)) = Fin(0)

\* C8 as amended: they sum to zero when the amounts are integers small enough
\* that every partial sum is exact in f64 (magnitude below 2^53).
Thm_C8_ConservedExact ==
    ExactAmounts(chain) => BalanceTotal(chain, Parties(chain)) = Fin(0)

\* C8 witness: two rewards and two transfers, exact amounts, nonzero balances
Wit_C8_TwoRewards ==
    /\ ExactAmounts(chain)
    /\ Len(chain) = 3
    /\ get_balance(chain, System) = Fin(-200)
    /\ get_balance(chain, AddrM) = Fin(200)
    /\ Len(submitted) = 2
    /\ BalanceTotal(chain, Parties(chain)) = Fin(0)

(***************************************************************************)
(* Direct mutation against validation (specification SpecTamper).          *)
(***************************************************************************)
\* C2 as claimed: after the amount of a transaction in a non-genesis block is
\* overwritten with a different value and the block's hash left alone,
\* is_chain_valid() returns false.
Cex_C2_AmountTamperDetected ==
    (last.op = "tamper" /\ last.field = "amount" /\ last.pos >= 2)
        => ~is_chain_valid(chain)

\* C10 as claimed: after any single field of a block held in the chain
\* (index, timestamp, a transaction field, previous_hash, nonce) is changed to
\* a different value, is_chain_valid() returns false.
Cex_C10_FieldTamperDetected ==
    last.op = "tamper" => ~is_chain_valid(chain)

\* the amount of the transaction last written to, before and after
AmountWas == last.was.transactions[last.tx].amount
AmountIs  == chain[last.pos].transactions[last.tx].amount

\* the change last made is one the string hashed by calculate_hash shows
ChangeIsHashed ==
    \/ last.field \in {"index", "previous_hash", "nonce", "from", "to"}
    \/ /\ last.field = "timestamp"
       /\ chain[last.pos].timestamp.secs # last.was.timestamp.secs
    \/ /\ last.field = "amount"
       /\ AmountWas.cls = "fin" \/ AmountIs.cls = "fin"

\* C10 as amended: a change to the index, previous_hash, nonce, a
\* transaction's from or to, the timestamp's epoch second, or an amount that
\* was or becomes finite, made to a non-genesis block, changes the recomputed
\* hash, and is_chain_valid() returns false; a change to the genesis block, or
\* to a timestamp within its second, leaves it returning true.
Thm_C10_HashedChangeDetected ==
    last.op = "tamper" =>
        /\ (last.pos >= 2 /\ ChangeIsHashed) =>
               /\ calculate_hash(chain[last.pos]) # calculate_hash(last.was)
               /\ ~is_chain_valid(chain)
        /\ (last.pos = 1 \/ (last.field = "timestamp" /\ ~ChangeIsHashed)) =>
               is_chain_valid(chain)

\* C10 witness: the nonce of the second of three blocks changed, and detected
Wit_C10_NonceOfMiddleBlock ==
    /\ last.op = "tamper"
    /\ last.field = "nonce"
    /\ last.pos = 2
    /\ Len(chain) = 3
    /\ chain[2].nonce # last.was.nonce
    /\ ~is_chain_valid(chain)

(***************************************************************************)
(* Validation of chains written to directly (specification SpecRehash).    *)
(***************************************************************************)
\* every block after the first stores the hash of its fields and names the
\* stored hash of the block before it
ChecksPass(ch) ==
    \A i \in 2..Len(ch) :
        /\ ch[i].hash = calculate_hash(ch[i])
        /\ ch[i].previous_hash = ch[i - 1].hash

\* the genesis block g with one field other than hash changed
GenesisEdits(g) ==
    {[g EXCEPT !.index = @ + 1],
     [g EXCEPT !.timestamp.secs = @ + 1],
     [g EXCEPT !.transactions[1].amount = Fin(1000)],
     [g EXCEPT !.previous_hash = <<"0", "0">>],
     [g EXCEPT !.nonce = @ + 1]}

\* C11: is_chain_valid() is true exactly when every chain[i], i from 1 to
\* len-1, stores calculate_hash(chain[i]) and names chain[i-1].hash; changing
\* a field of the genesis block other than its stored hash never changes the
\* result, and nothing else (a hash without the difficulty prefix, an index
\* that is not the position) makes it false.
Thm_C11_ValidIffChecksPass ==
    LET v == is_chain_valid(chain)
    IN  /\ v = ChecksPass(chain)
        /\ \A g \in GenesisEdits(chain[1]) :
               is_chain_valid([chain EXCEPT ![1] = g]) = v

\* C11 witness: the tip's index overwritten and its hash recomputed: the index
\* is not the position, the hash lacks the difficulty prefix, the chain is
\* reported valid
Wit_C11_ValidWithoutPrefix ==
    /\ last.op = "rehash"
    /\ last.field = "index"
    /\ last.pos = Len(chain)
    /\ Len(chain) = 3
    /\ chain[3].index # 2
    /\ ~LeadingZeros(chain[3].hash, difficulty)
    /\ is_chain_valid(chain)

\* C18 as claimed: after a transaction of block i (i >= 1) is changed and the
\* block's stored hash set to its recomputed calculate_hash(),
\* is_chain_valid() returns false when block i is not the tip (the next
\* block's previous_hash no longer matches) and true when it is the tip.
Cex_C18_RehashCaughtByLinkage ==
    (last.op = "rehash" /\ last.field = "amount" /\ last.pos >= 2) =>
        (is_chain_valid(chain) <=> last.pos = Len(chain))

(***************************************************************************)
(* The run of main (specification SpecMain).                               *)
(***************************************************************************)
\* C9: after the first mine the balances are Alice -50, Bob 25, Charlie 25,
\* Miner1 100; after the second they are -45, 30, 15, 100 and Miner2 100, and
\* main prints them; is_chain_valid() is true then, and false once
\* chain[1].transactions[0].amount is overwritten.
Thm_C9_MainScenario ==
    /\ pc = 4 =>
           /\ get_balance(chain, Alice) = Fin(-50)
           /\ get_balance(chain, Bob) = Fin(25)
           /\ get_balance(chain, Charlie) = Fin(25)
           /\ get_balance(chain, Miner1) = Fin(100)
    /\ pc \in 8..17 =>
           /\ get_balance(chain, Alice) = Fin(-45)
           /\ get_balance(chain, Bob) = Fin(30)
           /\ get_balance(chain, Charlie) = Fin(15)
           /\ get_balance(chain, Miner1) = Fin(100)
           /\ get_balance(chain, Miner2) = Fin(100)
           /\ is_chain_valid(chain)
    /\ pc >= 15 =>
           SubSeq(out, 1, 5) = <<Fin(-45), Fin(30), Fin(15), Fin(100), Fin(100)>>
    /\ pc >= 16 => out[6] = TRUE
    /\ pc >= 18 => ~is_chain_valid(chain)
    /\ pc >= 19 => out[7] = FALSE

\* C9 witness: main has run to its end, the amount overwritten
Wit_C9_MainDone ==
    /\ pc = 19
    /\ Len(out) = 7
    /\ Len(chain) = 3
    /\ chain[2].transactions[1].amount = Fin(1000)

(***************************************************************************)
(* mine_block, turn by turn (specifications SpecMine and SpecMineFair).    *)
(***************************************************************************)
\* C13 as claimed: for every difficulty and every block, mine_block returns
\* with a qualifying hash or keeps searching; it never aborts with an error,
\* not even when the difficulty exceeds the 64 characters of the hash.
Cex_C13_MiningNeverAborts == call.at # "panic"

\* the nonces looked at when asking whether a qualifying nonce exists
NonceSearch == 8

\* the hash of block b with nonce n
HashAt(b, n) == calculate_hash([b EXCEPT !.nonce = n])

Qualifies(b, n, d) == LeadingZeros(HashAt(b, n), d)

\* the call was entered on a block as Block::new made it
FreshCall == call.was = Unmined(call.was)

\* what the loop has compared with the target, on a fresh block: the hashes of
\* nonces 0, 1, 2, ... in order, none qualifying but possibly the last
SearchInOrder ==
    /\ \A k \in 1..Len(call.tested) :
           /\ call.tested[k].nonce = k - 1
           /\ call.tested[k].hash = HashAt(call.was, k - 1)
    /\ \A k \in 1..(Len(call.tested) - 1) :
           ~LeadingZeros(call.tested[k].hash, call.d)
    /\ call.at = "body" =>
           /\ Len(call.tested) >= 1
           /\ call.block.nonce = Len(call.tested) - 1
           /\ ~LeadingZeros(call.block.hash, call.d)
    /\ call.at = "done" =>
           /\ call.block.nonce = Len(call.tested) - 1
           /\ call.block.hash = HashAt(call.was, call.block.nonce)
           /\ LeadingZeros(call.block.hash, call.d)
           /\ \A n \in 0..(call.block.nonce - 1) : ~Qualifies(call.was, n, call.d)
           /\ (call.d = 0 \/ Qualifies(call.was, 0, call.d)) =>
                  call.block.nonce = 0
           /\ call.block = mine_block(call.was, call.d)

\* C14: mine_block(d) on a freshly constructed block tries the nonces 0, 1,
\* 2, ... in order, the nonce-0 hash first, and stops at the smallest whose
\* hash has d leading '0' characters (with nonce 0 at d = 0 or when the first
\* hash qualifies); it returns whenever some nonce qualifies.
Thm_C14_SmallestNonce ==
    /\ [](FreshCall => SearchInOrder)
    /\ (FreshCall /\ \E n \in 0..NonceSearch : Qualifies(call.was, n, call.d))
           ~> (call.at = "done")

\* C14 witness: a fresh block returned at difficulty 2 after nonces 0 and 1
\* failed
Wit_C14_FoundAfterSearch ==
    /\ FreshCall
    /\ call.at = "done"
    /\ call.d = 2
    /\ call.block.nonce >= 2
    /\ Len(call.tested) = call.block.nonce + 1

\* index, timestamp, transactions and previous_hash are as on entry
FrameKept ==
    /\ call.block.index = call.was.index
    /\ call.block.timestamp = call.was.timestamp
    /\ call.block.transactions = call.was.transactions
    /\ call.block.previous_hash = call.was.previous_hash

\* C15 as claimed: mine_block leaves index, timestamp, transactions and
\* previous_hash as they were, at every turn of the loop, and on return hash is
\* calculate_hash() for the final nonce.
Cex_C15_FrameAndCurrentHash ==
    /\ FrameKept
    /\ call.at = "done" => call.block.hash = calculate_hash(call.block)

\* C15 as amended: the four fields are kept at every turn; on return hash is
\* calculate_hash() for the final nonce if it was so on entry or the loop body
\* ran; a block entered with a stale hash that has d leading '0' characters is
\* returned as it was.
Thm_C15_FrameAndHash ==
    /\ FrameKept
    /\ call.at = "done" =>
           IF Len(call.tested) > 1 \/ call.was.hash = calculate_hash(call.was)
           THEN call.block.hash = calculate_hash(call.block)
           ELSE call.block = call.was

\* C15 witness: a block entered with a stale hash, returned after the loop ran,
\* its hash up to date and the four fields kept
Wit_C15_SearchedKeepsFrame ==
    /\ call.at = "done"
    /\ call.was.hash # calculate_hash(call.was)
    /\ call.block.nonce > call.was.nonce
    /\ call.block.hash = calculate_hash(call.block)
    /\ FrameKept

(***************************************************************************)
(* The string hashed (specification SpecSerialize).                        *)
(***************************************************************************)
\* what calculate_hash reads of a block
FieldTuple(b) ==
    <<b.index, b.timestamp.secs, b.transactions, b.previous_hash, b.nonce>>

\* C19 as claimed: two blocks whose tuples (index, epoch seconds,
\* transactions, previous_hash, nonce) differ are serialized to different
\* strings, so that equal hashes imply equal tuples.
Cex_C19_Canonical ==
    call.at = "hashed" =>
        /\ FieldTuple(call.a) # FieldTuple(call.b) => call.sa # call.sb
        /\ call.ha = call.hb => FieldTuple(call.a) = FieldTuple(call.b)

====
